---- MODULE Spec2Model ----
(***************************************************************************)
(* Model of DigitCaptureApp (src/run.py): a fullscreen drawing canvas      *)
(* whose strokes are recorded on a tk canvas and on a PIL raster, and a    *)
(* polling timer that every 30 s normalises the raster to a 28x28 matrix,  *)
(* prints it and clears both surfaces.                                     *)
(*                                                                         *)
(* Time is counted in milliseconds.  An image is a record                  *)
(* [w, h, px] with px a function from <<x, y>> to an 8-bit intensity.      *)
(* A matrix value v/255 is held as its numerator v over the denominator    *)
(* NormDen.                                                                *)
(***************************************************************************)
EXTENDS Integers, Sequences, FiniteSets, TLC

\* ------------------------------------------------------------------------
\* Bounds of the model (the display size is whatever the host reports)
\* ------------------------------------------------------------------------
ScreenW == 6

ScreenH == 4

MaxSegs == 1

MaxClock == 60000

\* ------------------------------------------------------------------------
\* Program constants
\* ------------------------------------------------------------------------
LineWidth == 15

OutSize == 28

MaxIntensity == 255

NormDen == 255

CaptureSecs == 30

PollMs == 100

SepLen == 50

MsPerSec == 1000

\* None, as a coordinate: no event coordinate of the display is negative
None == -1

White == 255

Black == 0

VARIABLES old_x, old_y, image, canvas_items, timer_text, start_time, now,
          after_queue, printed, prev_line, ret, last

vars == <<old_x, old_y, image, canvas_items, timer_text, start_time, now,
          after_queue, printed, prev_line, ret, last>>

\* ------------------------------------------------------------------------
\* Arithmetic helpers
\* ------------------------------------------------------------------------
Abs(a) == IF a < 0 THEN 0 - a ELSE a

Max2(a, b) == IF a >= b THEN a ELSE b

Min2(a, b) == IF a <= b THEN a ELSE b

\* floor(a / b) for b > 0 and any integer a
FloorDiv(a, b) == a \div b

\* C's (int) conversion of a / b, b > 0: truncation toward zero
TruncDiv(a, b) == IF a >= 0 THEN a \div b ELSE 0 - ((0 - a) \div b)

\* Python truthiness of a coordinate: None and 0 are both false
Truthy(v) == v # None /\ v # 0

\* A function expression is evaluated anew at each application; comparing it
\* fixes its value once.  Eval(f) is f.
Eval(f) == IF f = f THEN f ELSE f

\* ------------------------------------------------------------------------
\* Images
\* ------------------------------------------------------------------------
Pix(w, h) == (0 .. (w - 1)) \X (0 .. (h - 1))

\* Image.new('L', (w, h), 'black')
NewImage(w, h) == [w |-> w, h |-> h, px |-> [p \in Pix(w, h) |-> Black]]

\* Image.paste(src, (ox, oy)) onto dst
Paste(dst, src, ox, oy) ==
    [dst EXCEPT !.px =
        Eval([p \in Pix(dst.w, dst.h) |->
                 IF /\ p[1] >= ox /\ p[1] < ox + src.w
                    /\ p[2] >= oy /\ p[2] < oy + src.h
                 THEN src.px[<<p[1] - ox, p[2] - oy>>]
                 ELSE dst.px[p]])]

\* Image.crop((left, upper, right, lower)), right and lower exclusive
Crop(img, box) ==
    [w |-> box[3] - box[1], h |-> box[4] - box[2],
     px |-> [p \in Pix(box[3] - box[1], box[4] - box[2]) |->
                img.px[<<p[1] + box[1], p[2] + box[2]>>]]]

\* GetBBox with the whole image as the box of an empty raster
GetBBoxWhole(img) ==
    LET lit == {p \in Pix(img.w, img.h) : img.px[p] # 0}
        xs == {p[1] : p \in lit}
        ys == {p[2] : p \in lit}
        lo(S) == CHOOSE a \in S : \A b \in S : a <= b
        hi(S) == CHOOSE a \in S : \A b \in S : a >= b
    IN IF lit = {} THEN <<0, 0, img.w, img.h>>
       ELSE <<lo(xs), lo(ys), hi(xs) + 1, hi(ys) + 1>>

\* Image.getbbox(): the box of the non-zero pixels; <<>> stands for None
GetBBox(img) ==
    LET lit == {p \in Pix(img.w, img.h) : img.px[p] # 0}
        xs == {p[1] : p \in lit}
        ys == {p[2] : p \in lit}
        lo(S) == CHOOSE a \in S : \A b \in S : a <= b
        hi(S) == CHOOSE a \in S : \A b \in S : a >= b
    IN IF lit = {} THEN <<>>
       ELSE <<lo(xs), lo(ys), hi(xs) + 1, hi(ys) + 1>>

\* ------------------------------------------------------------------------
\* ImageDraw.line([x0, y0, x1, y1], fill='white', width=LineWidth)
\* A line wider than one pixel is filled as the quadrilateral whose corners
\* lie (width - 1) / 2 to either side of the two end points; a line of no
\* length is one point.
\* ------------------------------------------------------------------------
\* round-half-up of |(LineWidth - 1) / 2 * d / sqrt(h2)|
RoundUpMag(d, h2) ==
    CHOOSE n \in 0 .. LineWidth :
        /\ n = 0 \/ (2 * n - 1) * (2 * n - 1) * h2 <= (LineWidth - 1) * (LineWidth - 1) * d * d
        /\ (2 * n + 1) * (2 * n + 1) * h2 > (LineWidth - 1) * (LineWidth - 1) * d * d

\* round-half-down of the same magnitude
RoundDownMag(d, h2) ==
    CHOOSE n \in 0 .. LineWidth :
        /\ (2 * n + 1) * (2 * n + 1) * h2 >= (LineWidth - 1) * (LineWidth - 1) * d * d
        /\ n = 0 \/ (2 * n - 1) * (2 * n - 1) * h2 < (LineWidth - 1) * (LineWidth - 1) * d * d

RoundUp(d, h2) == IF d >= 0 THEN RoundUpMag(d, h2) ELSE 0 - RoundUpMag(d, h2)

RoundDown(d, h2) == IF d >= 0 THEN RoundDownMag(d, h2) ELSE 0 - RoundDownMag(d, h2)

\* the four corners of the wide line from (x0, y0) to (x1, y1)
LineVertices(x0, y0, x1, y1) ==
    LET dx == x1 - x0
        dy == y1 - y0
        h2 == dx * dx + dy * dy
        dxmin == RoundUp(dy, h2)
        dxmax == RoundDown(dy, h2)
        dymin == RoundUp(dx, h2)
        dymax == RoundDown(dx, h2)
    IN << <<x0 - dxmin, y0 + dymax>>, <<x1 - dxmin, y1 + dymax>>,
          <<x1 + dxmax, y1 - dymin>>, <<x0 + dxmax, y0 - dymin>> >>

\* which side of the edge a -> b the point p lies on
Side(a, b, p) == (b[1] - a[1]) * (p[2] - a[2]) - (b[2] - a[2]) * (p[1] - a[1])

InQuad(v, p) ==
    LET s == [i \in 1 .. 4 |-> Side(v[i], v[(i % 4) + 1], p)]
    IN (\A i \in 1 .. 4 : s[i] >= 0) \/ (\A i \in 1 .. 4 : s[i] <= 0)

\* whether the segment from (x0, y0) to (x1, y1) covers the pixel p
Covers(x0, y0, x1, y1, p) ==
    IF x0 = x1 /\ y0 = y1 THEN p = <<x0, y0>>
    ELSE InQuad(LineVertices(x0, y0, x1, y1), p)

DrawLine(img, x0, y0, x1, y1) ==
    [img EXCEPT !.px = [p \in Pix(img.w, img.h) |->
                           IF Covers(x0, y0, x1, y1, p) THEN White ELSE img.px[p]]]

\* ------------------------------------------------------------------------
\* Image.resize((n, n), LANCZOS): a separable convolution, rows first and
\* columns second, with the Lanczos window of support 3.  Positions are
\* held in units of 1 / (2 * OutSize) of an input pixel, the kernel is
\* tabulated at that step (scaled by KernelScale), and the normalised
\* coefficients are fixed-point numbers of CoeffBits bits.
\* ------------------------------------------------------------------------
LanczosSupport == 3

KernelScale == 4096

CoeffBits == 14

LanczosTab ==
    << 4096, 4094, 4086, 4075, 4058, 4037, 4011, 3980, 3945, 3906, 3862, 3814,
       3762, 3706, 3646, 3582, 3515, 3444, 3370, 3293, 3213, 3130, 3045, 2957,
       2867, 2776, 2682, 2587, 2490, 2392, 2294, 2194, 2094, 1994, 1893, 1793,
       1692, 1593, 1493, 1395, 1298, 1202, 1107, 1013, 922, 832, 744, 658,
       575, 494, 415, 339, 265, 195, 127, 62, 0, -59, -115, -168,
       -217, -264, -307, -348, -385, -419, -450, -478, -503, -525, -544, -561,
       -574, -585, -593, -599, -602, -603, -602, -599, -593, -586, -577, -566,
       -553, -539, -524, -508, -490, -472, -452, -432, -411, -390, -368, -345,
       -323, -300, -278, -255, -233, -210, -188, -167, -146, -125, -105, -86,
       -67, -49, -32, -16, 0, 15, 28, 41, 53, 64, 75, 84,
       92, 99, 106, 111, 116, 120, 123, 125, 127, 128, 128, 127,
       126, 124, 122, 119, 116, 112, 108, 104, 100, 95, 90, 85,
       80, 74, 69, 64, 59, 54, 49, 44, 39, 34, 30, 26,
       22, 19, 15, 13, 10, 8, 6, 4, 2, 1, 1, 0 >>

\* KernelScale * sinc(x) * sinc(x / 3) at x = idx / (2 * OutSize), 0 beyond the support
Lanczos(idx) == IF idx < Len(LanczosTab) THEN LanczosTab[idx + 1] ELSE 0

Pow2(n) == 2 ^ n

\* Clip8 without the clamp to 0 .. 255
Clip8NoClamp(acc) == FloorDiv(acc, Pow2(CoeffBits))

\* clip8: an accumulator back to an 8-bit intensity
Clip8(acc) ==
    LET v == FloorDiv(acc, Pow2(CoeffBits))
    IN IF v < 0 THEN 0 ELSE IF v > MaxIntensity THEN MaxIntensity ELSE v

RECURSIVE SumSeq(_)
SumSeq(q) == IF q = <<>> THEN 0 ELSE Head(q) + SumSeq(Tail(q))

\* round(a / b) half away from zero, b > 0
RoundDiv(a, b) ==
    IF a >= 0 THEN (2 * a + b) \div (2 * b) ELSE 0 - ((2 * (0 - a) + b) \div (2 * b))

\* the taps of output position xx when s input pixels become n:
\* the first input pixel and the normalised fixed-point weights
Coeffs(s, n, xx) ==
    LET unit == 2 * n
        fs == Max2(s, n)
        center == (2 * xx + 1) * s
        support == 2 * LanczosSupport * fs
        xmin == Max2(0, TruncDiv(center - support + n, unit))
        xmax == Min2(s, TruncDiv(center + support + n, unit))
        w == [i \in 1 .. (xmax - xmin) |->
                 Lanczos(RoundDiv(Abs(unit * (xmin + i - 1) + n - center) * n, fs))]
        ww == SumSeq(w)
    IN [xmin |-> xmin,
        k |-> Eval([i \in 1 .. (xmax - xmin) |->
                       IF ww = 0 THEN w[i] ELSE RoundDiv(w[i] * Pow2(CoeffBits), ww)])]

\* the taps of every output position
AllCoeffs(s, n) == Eval([xx \in 0 .. (n - 1) |-> Coeffs(s, n, xx)])

\* the weighted sum of the first i taps over one line of input samples
RECURSIVE TapSum(_, _, _)
TapSum(c, line, i) ==
    IF i = 0 THEN 0
    ELSE line[c.xmin + i - 1] * c.k[i] + TapSum(c, line, i - 1)

\* one output sample
Convolve(c, line) == Clip8(Pow2(CoeffBits - 1) + TapSum(c, line, Len(c.k)))

ResizeHorizontal(img, n) ==
    IF img.w = n THEN img
    ELSE LET c == AllCoeffs(img.w, n)
             rows == Eval([y \in 0 .. (img.h - 1) |->
                              Eval([x \in 0 .. (img.w - 1) |-> img.px[<<x, y>>]])])
         IN [w |-> n, h |-> img.h,
             px |-> Eval([p \in Pix(n, img.h) |-> Convolve(c[p[1]], rows[p[2]])])]

ResizeVertical(img, n) ==
    IF img.h = n THEN img
    ELSE LET c == AllCoeffs(img.h, n)
             cols == Eval([x \in 0 .. (img.w - 1) |->
                              Eval([y \in 0 .. (img.h - 1) |-> img.px[<<x, y>>]])])
         IN [w |-> img.w, h |-> n,
             px |-> Eval([p \in Pix(img.w, n) |-> Convolve(c[p[2]], cols[p[1]])])]

Resize(img, n) == ResizeVertical(ResizeHorizontal(img, n), n)

\* ------------------------------------------------------------------------
\* Output lines: what print() writes
\* ------------------------------------------------------------------------
TextLine(t) == [kind |-> "text", text |-> t, vals |-> <<>>]

BlankLine == TextLine("")

\* "=" * 50
SepLine == [kind |-> "sep", text |-> "=", vals |-> <<SepLen>>]

\* f'{val:.2f}': the value in hundredths
Format2(v) == RoundDiv(100 * v.num, v.den)

\* one matrix row, the values joined by spaces
RowLine(row) == [kind |-> "row", text |-> " ",
                 vals |-> [c \in 1 .. Len(row) |-> Format2(row[c])]]

\* the glyph of one value: 2 for the solid block, 1 for the light shade, 0 for a space
Glyph(v) == IF 2 * v.num > v.den THEN 2 ELSE IF 10 * v.num > v.den THEN 1 ELSE 0

VisualLine(row) == [kind |-> "visual", text |-> "",
                    vals |-> [c \in 1 .. Len(row) |-> Glyph(row[c])]]

\* ------------------------------------------------------------------------
\* process_drawing: the raster to a 28x28 matrix
\* ------------------------------------------------------------------------
\* max_dim = max(width, height)
MaxDim(width, height) == Max2(width, height)

\* Offset with the crop pasted at the corner
OffsetNone(max_dim, size) == 0

\* offset_x = (max_dim - width) // 2, offset_y = (max_dim - height) // 2
Offset(max_dim, size) == (max_dim - size) \div 2

\* Padding as a quarter of the side
PaddingQuarter(max_dim) == max_dim \div 4

\* padding = int(max_dim * 0.2): the double nearest 0.2 is just above 1/5, so
\* the product truncates to floor(max_dim / 5)
Padding(max_dim) == (max_dim * 2) \div 10

\* padded_size = max_dim + 2 * padding
PaddedSize(max_dim) == max_dim + 2 * Padding(max_dim)

\* square_img: the crop pasted on a black square of side max_dim
SquareImg(cropped) ==
    LET max_dim == MaxDim(cropped.w, cropped.h)
    IN Paste(NewImage(max_dim, max_dim), cropped,
             Offset(max_dim, cropped.w), Offset(max_dim, cropped.h))

\* padded_img: the square pasted at (padding, padding) on a black square
PaddedImg(square_img) ==
    LET max_dim == square_img.w
    IN Paste(NewImage(PaddedSize(max_dim), PaddedSize(max_dim)), square_img,
             Padding(max_dim), Padding(max_dim))

\* one element of np.array(mnist_img, dtype=np.float32) / 255.0
Normalize(v) == [num |-> v, den |-> NormDen]

\* mnist_array: row r, column c is the pixel (c, r)
ToArray(img) ==
    [r \in 1 .. img.h |-> [c \in 1 .. img.w |-> Normalize(img.px[<<c - 1, r - 1>>])]]

MatrixLines(m) ==
    <<BlankLine, SepLine,
      TextLine("Captured digit as 28x28 matrix (normalized 0-1):"), SepLine>>
    \o [r \in 1 .. Len(m) |-> RowLine(m[r])]
    \o <<BlankLine, TextLine("Visual representation:")>>
    \o [r \in 1 .. Len(m) |-> VisualLine(m[r])]

\* the message of an empty capture without the newline in front of it
EmptyLinesBare == <<TextLine("No drawing detected!")>>

EmptyLines == <<BlankLine, TextLine("No drawing detected!")>>

\* the value returned (none: the return is None) and the lines printed
process_drawing(img) ==
    LET bbox == GetBBox(img)
    IN IF bbox # <<>>
       THEN LET mnist_array ==
                    Eval(ToArray(Resize(PaddedImg(SquareImg(Crop(img, bbox))), OutSize)))
            IN [none |-> FALSE, matrix |-> mnist_array, out |-> MatrixLines(mnist_array)]
       ELSE [none |-> TRUE, matrix |-> <<>>, out |-> EmptyLines]

\* ------------------------------------------------------------------------
\* State after __init__ and run(): an empty raster, no origin, the countdown
\* at 30, one update_timer callback pending, the banner printed.
\* printed holds the lines the latest handler wrote, prev_line the last line
\* on the output stream before them (as a sequence of at most one line), ret
\* what process_drawing returned to the handler (NotCalled when it was not
\* called), last the handler's name.
\* ------------------------------------------------------------------------
Banner ==
    <<TextLine("Digit Capture Application Started"),
      TextLine("- Draw digits with mouse/stylus"),
      TextLine("- Canvas automatically resets every 30 seconds"),
      TextLine("- Press ESC to exit"),
      SepLine>>

NotCalled == <<>>

\* the last line on the output stream once a handler that found prev there
\* has written lines
LastLine(lines, prev) == IF lines = <<>> THEN prev ELSE <<lines[Len(lines)]>>

Init ==
    /\ old_x = None
    /\ old_y = None
    /\ image = NewImage(ScreenW, ScreenH)
    /\ canvas_items = <<>>
    /\ timer_text = CaptureSecs
    /\ start_time = 0
    /\ now = 0
    /\ after_queue = <<PollMs>>
    /\ printed = Banner
    /\ prev_line = <<>>
    /\ ret = NotCalled
    /\ last = "run"

\* ------------------------------------------------------------------------
\* Pointer handlers
\* ------------------------------------------------------------------------
\* start_draw that puts a dot under the pointer on both surfaces
start_draw_dot(x, y) ==
    /\ old_x' = x
    /\ old_y' = y
    /\ canvas_items' = Append(canvas_items, <<x, y, x, y>>)
    /\ image' = DrawLine(image, x, y, x, y)
    /\ printed' = <<>>
    /\ prev_line' = LastLine(printed, prev_line)
    /\ ret' = NotCalled
    /\ last' = "start_draw"
    /\ UNCHANGED <<timer_text, start_time, now, after_queue>>

\* start_draw recording only the x coordinate
start_draw_x_only(x, y) ==
    /\ old_x' = x
    /\ printed' = <<>>
    /\ prev_line' = LastLine(printed, prev_line)
    /\ ret' = NotCalled
    /\ last' = "start_draw"
    /\ UNCHANGED <<old_y, image, canvas_items, timer_text, start_time, now, after_queue>>

\* <Button-1>
start_draw(x, y) ==
    /\ old_x' = x
    /\ old_y' = y
    /\ printed' = <<>>
    /\ prev_line' = LastLine(printed, prev_line)
    /\ ret' = NotCalled
    /\ last' = "start_draw"
    /\ UNCHANGED <<image, canvas_items, timer_text, start_time, now, after_queue>>

\* the drawing branch that draws on the display surface only
DrawBranchCanvasOnly(x, y) ==
    /\ canvas_items' = Append(canvas_items, <<old_x, old_y, x, y>>)
    /\ image' = image
    /\ old_x' = x
    /\ old_y' = y

\* the branch of draw_line that draws: on the canvas, on the raster, then
\* the origin moves to the event's position
DrawBranch(x, y) ==
    /\ canvas_items' = Append(canvas_items, <<old_x, old_y, x, y>>)
    /\ image' = DrawLine(image, old_x, old_y, x, y)
    /\ old_x' = x
    /\ old_y' = y

\* draw_line without its test of the origin
HasOriginAlways == TRUE

\* if self.old_x and self.old_y
HasOrigin == Truthy(old_x) /\ Truthy(old_y)

\* <B1-Motion>
draw_line(x, y) ==
    /\ IF HasOrigin
       THEN /\ Len(canvas_items) < MaxSegs
            /\ DrawBranch(x, y)
       ELSE UNCHANGED <<canvas_items, image, old_x, old_y>>
    /\ printed' = <<>>
    /\ prev_line' = LastLine(printed, prev_line)
    /\ ret' = NotCalled
    /\ last' = "draw_line"
    /\ UNCHANGED <<timer_text, start_time, now, after_queue>>

\* <ButtonRelease-1>
stop_draw ==
    /\ old_x' = None
    /\ old_y' = None
    /\ printed' = <<>>
    /\ prev_line' = LastLine(printed, prev_line)
    /\ ret' = NotCalled
    /\ last' = "stop_draw"
    /\ UNCHANGED <<image, canvas_items, timer_text, start_time, now, after_queue>>

\* ------------------------------------------------------------------------
\* The capture loop
\* ------------------------------------------------------------------------
ResetLines ==
    <<BlankLine, SepLine, TextLine("Canvas reset - Ready for new input"), SepLine>>

\* what process_drawing returned, without the lines it printed
Returned(r) == <<[none |-> r.none, matrix |-> r.matrix]>>

\* reset_canvas that does not renew the start time
reset_canvas_keep_start(t) ==
    LET r == process_drawing(image)
    IN /\ ret' = Returned(r)
       /\ canvas_items' = <<>>
       /\ timer_text' = CaptureSecs
       /\ image' = NewImage(ScreenW, ScreenH)
       /\ printed' = r.out \o ResetLines
       /\ UNCHANGED <<old_x, old_y, start_time>>

\* reset_canvas that does not replace the raster
reset_canvas_keep_raster(t) ==
    LET r == process_drawing(image)
    IN /\ ret' = Returned(r)
       /\ canvas_items' = <<>>
       /\ timer_text' = CaptureSecs
       /\ start_time' = t
       /\ printed' = r.out \o ResetLines
       /\ UNCHANGED <<old_x, old_y, image>>

\* reset_canvas that clears the raster before it processes it
reset_canvas_clear_first(t) ==
    LET r == process_drawing(NewImage(ScreenW, ScreenH))
    IN /\ ret' = Returned(r)
       /\ canvas_items' = <<>>
       /\ timer_text' = CaptureSecs
       /\ image' = NewImage(ScreenW, ScreenH)
       /\ start_time' = t
       /\ printed' = r.out \o ResetLines
       /\ UNCHANGED <<old_x, old_y>>

\* reset_canvas at time t: the raster is processed, then both surfaces are
\* cleared, the countdown text is recreated and the start time renewed.
\* old_x and old_y are not assigned.  The clock is read once per handler:
\* the time.time() of line 185 is taken to be the tick's own reading.
reset_canvas(t) ==
    LET r == process_drawing(image)
    IN /\ ret' = Returned(r)
       /\ canvas_items' = <<>>
       /\ timer_text' = CaptureSecs
       /\ image' = NewImage(ScreenW, ScreenH)
       /\ start_time' = t
       /\ printed' = r.out \o ResetLines
       /\ UNCHANGED <<old_x, old_y>>

\* elapsed = time.time() - self.start_time, read at time t
Elapsed(t) == t - start_time

\* the countdown with the elapsed time rounded up to whole seconds
RemainingCeil(elapsed) ==
    Max2(0, CaptureSecs - ((elapsed + MsPerSec - 1) \div MsPerSec))

\* remaining = max(0, 30 - int(elapsed))
Remaining(elapsed) == Max2(0, CaptureSecs - (elapsed \div MsPerSec))

\* the expiry test with a strict comparison
ExpiredStrict(elapsed) == elapsed > CaptureSecs * MsPerSec

\* if elapsed >= 30
Expired(elapsed) == elapsed >= CaptureSecs * MsPerSec

\* update_timer whose tick, when it resets, returns before it schedules the
\* next one
update_timer_no_reschedule(d) ==
    /\ after_queue # <<>>
    /\ now + d >= Head(after_queue)
    /\ now + d <= MaxClock
    /\ now' = now + d
    /\ IF Expired(Elapsed(now + d))
       THEN /\ reset_canvas(now + d)
            /\ after_queue' = Tail(after_queue)
       ELSE /\ timer_text' = Remaining(Elapsed(now + d))
            /\ printed' = <<>>
            /\ ret' = NotCalled
            /\ after_queue' = Append(Tail(after_queue), now + d + PollMs)
            /\ UNCHANGED <<old_x, old_y, image, canvas_items, start_time>>
    /\ prev_line' = LastLine(printed, prev_line)
    /\ last' = "update_timer"

\* the pending callback runs d ms after the previous tick
update_timer(d) ==
    /\ after_queue # <<>>
    /\ now + d >= Head(after_queue)
    /\ now + d <= MaxClock
    /\ now' = now + d
    /\ IF Expired(Elapsed(now + d))
       THEN reset_canvas(now + d)
       ELSE /\ timer_text' = Remaining(Elapsed(now + d))
            /\ printed' = <<>>
            /\ ret' = NotCalled
            /\ UNCHANGED <<old_x, old_y, image, canvas_items, start_time>>
    /\ after_queue' = Append(Tail(after_queue), now + d + PollMs)
    /\ prev_line' = LastLine(printed, prev_line)
    /\ last' = "update_timer"

\* ------------------------------------------------------------------------
\* The program: pointer events at a few positions, ticks after a few delays
\* ------------------------------------------------------------------------
Points == {<<0, 2>>, <<1, 1>>, <<ScreenW - 2, ScreenH - 1>>}

Delays == {150 * PollMs, 300 * PollMs}

Next ==
    \/ \E p \in Points : start_draw(p[1], p[2])
    \/ \E p \in Points : draw_line(p[1], p[2])
    \/ stop_draw
    \/ \E d \in Delays : update_timer(d)

Spec == Init /\ [][Next]_vars

\* ------------------------------------------------------------------------
\* process_drawing on its own: the raster is any one that at most two
\* strokes leave (dots, and wide lines from (1, 1)), and each step calls
\* process_drawing on it
\* ------------------------------------------------------------------------
Dots == {<<p[1], p[2], p[1], p[2]>> : p \in (1 .. (ScreenW - 1)) \X (1 .. (ScreenH - 1))}

WideLines ==
    {<<1, 1, q[1], q[2]>> : q \in {<<0, 0>>, <<2, 1>>, <<1, 2>>, <<ScreenW - 1, 1>>,
                                   <<ScreenW - 1, ScreenH - 1>>}}

StrokeInputs ==
    {<<>>} \cup {<<a>> : a \in Dots \cup WideLines}
           \cup {<<a, b>> : a \in Dots, b \in Dots \cup WideLines}

\* the raster a sequence of strokes leaves on an empty one
RECURSIVE Render(_)
Render(items) ==
    IF items = <<>> THEN NewImage(ScreenW, ScreenH)
    ELSE LET n == Len(items)
             s == items[n]
         IN DrawLine(Render(SubSeq(items, 1, n - 1)), s[1], s[2], s[3], s[4])

InitNorm ==
    /\ old_x = None
    /\ old_y = None
    /\ canvas_items \in StrokeInputs
    /\ image = Render(canvas_items)
    /\ timer_text = CaptureSecs
    /\ start_time = 0
    /\ now = 0
    /\ after_queue = <<PollMs>>
    /\ printed = <<>>
    /\ prev_line = <<SepLine>>
    /\ ret = NotCalled
    /\ last = "stop_draw"

\* process_drawing that crops the raster in place
ProcessDrawingInPlace ==
    LET r == process_drawing(image)
        bbox == GetBBox(image)
    IN /\ ret' = Returned(r)
       /\ printed' = r.out
       /\ prev_line' = LastLine(printed, prev_line)
       /\ last' = "process_drawing"
       /\ image' = IF bbox = <<>> THEN image ELSE Crop(image, bbox)
       /\ UNCHANGED <<old_x, old_y, canvas_items, timer_text, start_time,
                      now, after_queue>>

ProcessDrawing ==
    LET r == process_drawing(image)
    IN /\ ret' = Returned(r)
       /\ printed' = r.out
       /\ prev_line' = LastLine(printed, prev_line)
       /\ last' = "process_drawing"
       /\ UNCHANGED <<old_x, old_y, image, canvas_items, timer_text, start_time,
                      now, after_queue>>

NextNorm == ProcessDrawing

SpecNorm == InitNorm /\ [][NextNorm]_vars

\* ---------------------------------------------------------------------
\* The capture loop at its polling rate: every tick fires PollMs after the
\* one before it (root.after(100, ...)), and the pointer presses, moves on
\* the spot and releases in between.  The event loop runs a due callback,
\* so the tick is weakly fair; TickFires is the tick seen by the clock alone
\* (no other step advances it), enabled exactly when update_timer(PollMs) is.

PollPoint == <<1, 1>>

TickFires ==
    /\ after_queue # <<>>
    /\ now + PollMs >= Head(after_queue)
    /\ now + PollMs <= MaxClock
    /\ now' = now + PollMs

NextPoll ==
    \/ start_draw(PollPoint[1], PollPoint[2])
    \/ draw_line(PollPoint[1], PollPoint[2])
    \/ stop_draw
    \/ update_timer(PollMs)

SpecPoll == Init /\ [][NextPoll]_vars /\ WF_now(TickFires)

\* the capture interval in clock units
CaptureMs == CaptureSecs * MsPerSec

\* ------------------------------------------------------------------------
\* Properties
\* ------------------------------------------------------------------------
Blank == NewImage(ScreenW, ScreenH)

\* the non-background pixels of an image
Lit(img) == {p \in Pix(img.w, img.h) : img.px[p] # Black}

\* the latest handler was a tick that ran reset_canvas
JustReset == last = "update_timer" /\ ret # NotCalled

\* the latest handler called process_drawing and it returned a matrix
GotMatrix == ret # NotCalled /\ ~ret[1].none

\* C1: once a tick has run reset_canvas the stroke origin is cleared, so a
\* pointer-move that is the next event after the reset (no pointer-down in
\* between) applies no segment to the raster or to the display.
C1_NoSegmentAfterReset ==
    [][(JustReset /\ last' = "draw_line")
          => (image' = image /\ canvas_items' = canvas_items)]_vars

\* C2: a pointer-move while an origin exists (whatever its position in the
\* display, the column x = 0 and the row y = 0 included) applies the segment
\* from the origin to the event's position and moves the origin there.
C2_MoveDrawsFromEveryOrigin ==
    [][\A p \in Points :
          (old_x # None /\ old_y # None /\ draw_line(p[1], p[2]))
             => /\ image' = DrawLine(image, old_x, old_y, p[1], p[2])
                /\ canvas_items' = Append(canvas_items, <<old_x, old_y, p[1], p[2]>>)
                /\ old_x' = p[1]
                /\ old_y' = p[2]]_vars

\* C3: the raster a capture normalises holds only the segments applied since
\* the previous reset (or since startup), and the reset leaves the raster
\* all-background.
C3_ResetLeavesBlankRaster ==
    [][(last' = "update_timer" /\ ret' # NotCalled)
          => (image = Render(canvas_items) /\ image' = Blank /\ Lit(image') = {})]_vars

C3_Witness == JustReset /\ GotMatrix /\ image = Blank

\* C4: a pointer-move while no origin is active changes neither the raster,
\* nor the display segments, nor the origin.
C4_MoveWithoutOriginIsNoOp ==
    [][\A p \in Points :
          (old_x = None /\ old_y = None /\ draw_line(p[1], p[2]))
             => /\ image' = image
                /\ canvas_items' = canvas_items
                /\ old_x' = None
                /\ old_y' = None]_vars

C4_Witness == last = "draw_line" /\ old_x = None /\ old_y = None

\* C5: pointer-down at (x, y) sets the origin to exactly (x, y) whatever it
\* was, pointer-up leaves no origin, and neither changes the raster or the
\* start time.
C5_DownSetsUpClearsOrigin ==
    [][/\ \A p \in Points :
             start_draw(p[1], p[2])
                => /\ old_x' = p[1] /\ old_y' = p[2]
                   /\ image' = image /\ start_time' = start_time
       /\ stop_draw
             => /\ old_x' = None /\ old_y' = None
                /\ image' = image /\ start_time' = start_time]_vars

C5_Witness ==
    /\ last = "start_draw" /\ old_x = 0 /\ old_y = 2
    /\ canvas_items # <<>> /\ start_time > 0

\* the printed lines that are matrix rows
RowLines(lines) == {i \in 1 .. Len(lines) : lines[i].kind \in {"row", "visual"}}

\* C6: process_drawing returns None, and prints the no-drawing message and
\* no matrix row, exactly when the raster has no non-background pixel;
\* otherwise it returns a matrix.
C6_EmptyCaptureIffNothingDrawn ==
    ret # NotCalled =>
        /\ ret[1].none <=> Lit(image) = {}
        /\ ret[1].none <=> printed = EmptyLines
        /\ ret[1].none => (ret[1].matrix = <<>> /\ RowLines(printed) = {})
        /\ ~ret[1].none => (ret[1].matrix # <<>> /\ RowLines(printed) # {})

C6_Witness ==
    /\ last = "process_drawing" /\ ret # NotCalled /\ ret[1].none
    /\ printed = EmptyLines /\ Lit(image) = {}

\* the bounding box's width and height
BoxW(img) == GetBBox(img)[3] - GetBBox(img)[1]

BoxH(img) == GetBBox(img)[4] - GetBBox(img)[2]

\* C7: the matrix process_drawing returns has 28 rows of 28 values, each an
\* 8-bit intensity over 255, so in [0.0, 1.0].
C7_MatrixShapeAndRange ==
    GotMatrix =>
        /\ Len(ret[1].matrix) = OutSize
        /\ \A r \in 1 .. Len(ret[1].matrix) :
              /\ Len(ret[1].matrix[r]) = OutSize
              /\ \A c \in 1 .. Len(ret[1].matrix[r]) :
                    /\ ret[1].matrix[r][c].den = MaxIntensity
                    /\ ret[1].matrix[r][c].num >= 0
                    /\ ret[1].matrix[r][c].num <= ret[1].matrix[r][c].den

C7_Witness ==
    /\ last = "process_drawing" /\ GotMatrix
    /\ BoxW(image) = ScreenW /\ BoxH(image) = ScreenH
    /\ \E r \in 1 .. OutSize : \E c \in 1 .. OutSize :
          ret[1].matrix[r][c].num > 0 /\ ret[1].matrix[r][c].num < MaxIntensity

\* the crop, the square and the padded square process_drawing builds
CropOf(img) == Crop(img, GetBBox(img))

SquareOf(img) == SquareImg(CropOf(img))

PaddedOf(img) == PaddedImg(SquareOf(img))

\* the background columns and rows around the content of an image:
\* <<left, top, right, bottom>>
Around(img) ==
    <<GetBBox(img)[1], GetBBox(img)[2], img.w - GetBBox(img)[3], img.h - GetBBox(img)[4]>>

\* the margin the padded square adds on each side of the square
Margins(img) ==
    [i \in 1 .. 4 |-> Around(PaddedOf(img))[i] - Around(SquareOf(img))[i]]

\* inner lies unchanged in outer at the offset (ox, oy)
PlacedAt(outer, inner, ox, oy) ==
    \A p \in Pix(inner.w, inner.h) : outer.px[<<p[1] + ox, p[2] + oy>>] = inner.px[p]

\* C8 as stated: the margin on each side is 20% of max_dim and the side of
\* the image handed to the resize is 1.4 x max_dim, the square at (margin, margin).
C8_MarginIsTwentyPercent ==
    GotMatrix =>
        LET max_dim == Max2(BoxW(image), BoxH(image))
            pd == PaddedOf(image)
        IN /\ \A i \in 1 .. 4 : 5 * Margins(image)[i] = max_dim
           /\ 10 * pd.w = 14 * max_dim
           /\ 10 * pd.h = 14 * max_dim
           /\ PlacedAt(pd, SquareOf(image), Margins(image)[1], Margins(image)[2])

\* C8, amended: the margin on each side is 20% of max_dim rounded down to
\* whole pixels, floor(max_dim / 5), the side of the image handed to the
\* resize is max_dim + 2 * floor(max_dim / 5), and the square lies at
\* (margin, margin).
C8_MarginIsFloorOfTwentyPercent ==
    GotMatrix =>
        LET max_dim == Max2(BoxW(image), BoxH(image))
            pd == PaddedOf(image)
        IN /\ \A i \in 1 .. 4 : Margins(image)[i] = max_dim \div 5
           /\ pd.w = max_dim + 2 * (max_dim \div 5)
           /\ pd.h = pd.w
           /\ PlacedAt(pd, SquareOf(image), max_dim \div 5, max_dim \div 5)

C8_Witness ==
    /\ last = "process_drawing" /\ GotMatrix
    /\ Max2(BoxW(image), BoxH(image)) >= 5
    /\ \A i \in 1 .. 4 : Margins(image)[i] >= 1

\* C9 as stated: the square has side max(w, h), the longer axis gets no
\* padding and the padding before and after the content on the shorter axis
\* is equal.
C9_SquarePadIsSymmetric ==
    GotMatrix =>
        LET sq == SquareOf(image)
            a == Around(sq)
        IN /\ sq.w = Max2(BoxW(image), BoxH(image))
           /\ sq.h = sq.w
           /\ BoxW(image) >= BoxH(image) => (a[1] = 0 /\ a[3] = 0)
           /\ BoxH(image) >= BoxW(image) => (a[2] = 0 /\ a[4] = 0)
           /\ a[1] = a[3]
           /\ a[2] = a[4]

\* C9, amended: the square has side max(w, h), the longer axis gets no
\* padding, and on the shorter axis the padding before the content is
\* floor(d / 2) and the padding after it the rest of d = max(w, h) - min(w, h):
\* equal when d is even, one more after than before when d is odd.
C9_SquarePadIsCentredToAPixel ==
    GotMatrix =>
        LET sq == SquareOf(image)
            a == Around(sq)
            w == BoxW(image)
            h == BoxH(image)
        IN /\ sq.w = Max2(w, h)
           /\ sq.h = sq.w
           /\ w >= h => (a[1] = 0 /\ a[3] = 0)
           /\ h >= w => (a[2] = 0 /\ a[4] = 0)
           /\ a[1] = (sq.w - w) \div 2 /\ a[3] = (sq.w - w) - a[1]
           /\ a[2] = (sq.h - h) \div 2 /\ a[4] = (sq.h - h) - a[2]
           /\ a[3] - a[1] = (sq.w - w) % 2
           /\ a[4] - a[2] = (sq.h - h) % 2
           /\ PlacedAt(sq, CropOf(image), a[1], a[2])

C9_Witness ==
    /\ last = "process_drawing" /\ GotMatrix
    /\ BoxW(image) - BoxH(image) = 3
    /\ Around(SquareOf(image))[2] = 1 /\ Around(SquareOf(image))[4] = 2

\* C10: a tick that observes elapsed >= 30 s runs the normalizer on the
\* raster as it stands, emits its result, then clears the raster, puts the
\* countdown back to 30 and renews the start time; no step clears a raster
\* that holds a stroke without having captured it.
C10_CaptureBeforeClear ==
    [][/\ (now' # now /\ Expired(now' - start_time))
             => /\ ret' = Returned(process_drawing(image))
                /\ printed' = process_drawing(image).out \o ResetLines
                /\ image' = Blank
                /\ canvas_items' = <<>>
                /\ timer_text' = CaptureSecs
                /\ start_time' = now'
       /\ (Lit(image) # {} /\ Lit(image') = {})
             => (ret' # NotCalled /\ ~ret'[1].none)]_vars

C10_Witness ==
    /\ JustReset /\ GotMatrix /\ printed # <<>>
    /\ Lit(image) = {} /\ timer_text = CaptureSecs /\ start_time = now /\ now > 0

\* C11: every tick, resetting or not, leaves exactly the next tick pending,
\* one poll interval ahead; exactly one tick is pending in every reachable
\* state; and with ticks firing, the first capture reset is followed by the
\* start of the next cycle and that one by the second capture reset.
C11_OneTickPendingAndResetsRecur ==
    /\ [](Len(after_queue) = 1)
    /\ [][now' # now => after_queue' = <<now' + PollMs>>]_vars
    /\ (start_time = 0) ~> (JustReset /\ start_time = CaptureMs)
    /\ (start_time = CaptureMs) ~> (JustReset /\ start_time = 2 * CaptureMs)

C11_Witness ==
    /\ JustReset /\ start_time = 2 * CaptureMs
    /\ Len(after_queue) = 1 /\ Head(after_queue) = now + PollMs

\* C12 as stated: the countdown a tick shows is max(0, 30 - elapsed) for the
\* elapsed time itself; it is an integer in 0..30 in every reachable state
\* and reads 30 right after a reset.
C12_CountdownIsThirtyMinusElapsed ==
    /\ [](timer_text \in 0..CaptureSecs)
    /\ [][now' # now =>
             IF ret' # NotCalled
             THEN timer_text' = CaptureSecs
             ELSE timer_text' * MsPerSec =
                      Max2(0, CaptureMs - (now' - start_time))]_vars

\* C12: the countdown a tick that does not reset shows is
\* max(0, 30 - floor(elapsed)), the elapsed time cut to whole seconds; it is
\* an integer in 0..30 in every reachable state and reads 30 right after a
\* reset.
C12_CountdownIsThirtyMinusWholeSeconds ==
    /\ [](timer_text \in 0..CaptureSecs)
    /\ [][now' # now =>
             IF ret' # NotCalled
             THEN timer_text' = CaptureSecs
             ELSE timer_text' =
                      Max2(0, CaptureSecs - ((now' - start_time) \div MsPerSec))]_vars

C12_Witness ==
    /\ last = "update_timer" /\ ret = NotCalled
    /\ now - start_time = CaptureMs - PollMs
    /\ timer_text = 1

NoDrawingLine == TextLine("No drawing detected!")

LineBefore(i) == IF i = 1 THEN prev_line ELSE <<printed[i - 1]>>

LineAfter(i) == IF i = Len(printed) THEN <<>> ELSE <<printed[i + 1]>>

EmptyCapture == JustReset /\ ret[1].none

\* C14 as stated: on every empty capture the no-drawing message has a
\* separator line right before it and another right after it, as the matrix
\* header and the canvas-reset message have.
C14_EmptyMessageIsFramed ==
    EmptyCapture =>
        \E i \in 1..Len(printed) :
            /\ printed[i] = NoDrawingLine
            /\ LineBefore(i) = <<SepLine>>
            /\ LineAfter(i) = <<SepLine>>

\* C14: on every empty capture the capture itself writes a blank line and
\* the no-drawing message, with no separator of its own; the separator
\* before the message is the line that closed the previous output (the
\* banner or the previous canvas-reset message) and the one after it is the
\* line that opens the canvas-reset message, with one blank line between
\* the message and each of them.  The matrix header and the canvas-reset
\* message have their separators right before and right after them.
C14_EmptyMessageSitsBetweenNeighbours ==
    /\ EmptyCapture =>
           /\ printed = <<BlankLine, NoDrawingLine>> \o ResetLines
           /\ prev_line = <<SepLine>>
           /\ LineBefore(2) = <<BlankLine>> /\ LineAfter(2) = <<BlankLine>>
           /\ LineBefore(1) = <<SepLine>> /\ LineAfter(3) = <<SepLine>>
    /\ JustReset =>
           /\ printed[Len(printed) - 2] = SepLine
           /\ printed[Len(printed)] = SepLine
           /\ printed[Len(printed) - 1].kind = "text"
    /\ (JustReset /\ GotMatrix) =>
           /\ printed[2] = SepLine /\ printed[4] = SepLine
           /\ printed[3].kind = "text"

C14_Witness ==
    /\ EmptyCapture /\ start_time = 2 * CaptureMs
    /\ printed[2] = NoDrawingLine /\ prev_line = <<SepLine>>

\* C15: with a tick every poll interval, no state shows an elapsed time of
\* 30 s or more (the first tick that observes it resets), and the elapsed
\* time a capture observes is at least 30 s and less than 30 s plus one
\* poll interval.
C15_CaptureWithinOnePollOfExpiry ==
    /\ [](now - start_time < CaptureMs)
    /\ [][ret' # NotCalled =>
             /\ now' = now + PollMs
             /\ now - start_time < CaptureMs
             /\ now' - start_time >= CaptureMs
             /\ now' - start_time < CaptureMs + PollMs]_vars

C15_Witness ==
    /\ JustReset /\ now = CaptureMs /\ start_time = now
    /\ after_queue = <<CaptureMs + PollMs>>

\* C16: in every reachable state the raster holds exactly the segments the
\* visible canvas holds: it is the rendering, on a blank raster, of the
\* sequence of segments drawn on the canvas since the last reset, and it is
\* blank when the canvas has none.
C16_SurfacesHoldTheSameStrokes ==
    /\ image = Render(canvas_items)
    /\ canvas_items = <<>> => Lit(image) = {}

C16_Witness ==
    /\ start_time > 0 /\ last = "draw_line"
    /\ canvas_items # <<>> /\ Lit(image) # {}
    /\ image = Render(canvas_items)

\* C17: a tick resets exactly when the elapsed time it observes is at least
\* 30 s; a tick that observes less changes the countdown only (raster,
\* canvas, origin and start time stay, nothing is written); a reset renews
\* the start time, so it comes at least 30 s after the previous reset (or
\* the start), and the tick that follows a resetting tick does not reset.
C17_ResetIffExpiredAndNeverTwice ==
    [][now' # now =>
           /\ ret' # NotCalled <=> now' - start_time >= CaptureMs
           /\ ret' = NotCalled =>
                  /\ UNCHANGED <<image, canvas_items, old_x, old_y, start_time>>
                  /\ printed' = <<>>
           /\ ret' # NotCalled =>
                  /\ start_time' = now'
                  /\ start_time' - start_time >= CaptureMs
           /\ JustReset => ret' = NotCalled]_vars

C17_Witness ==
    /\ last = "update_timer" /\ ret = NotCalled
    /\ start_time = CaptureMs /\ now = CaptureMs + PollMs
    /\ canvas_items # <<>> /\ timer_text = CaptureSecs

\* C18: a pointer-down and a pointer-up each leave the raster and the
\* visible canvas as they were, so a tap draws nothing; and a capture at the
\* end of a cycle in which no segment was drawn, as in a cycle of taps only,
\* is an empty one: no matrix, the no-drawing message.
C18_TapsDrawNothing ==
    [][/\ last' \in {"start_draw", "stop_draw"} =>
              (image' = image /\ canvas_items' = canvas_items)
       /\ (ret' # NotCalled /\ canvas_items = <<>>) =>
              /\ ret'[1].none
              /\ NoDrawingLine \in {printed'[i] : i \in 1..Len(printed')}
              /\ RowLines(printed') = {}]_vars

C18_Witness ==
    /\ EmptyCapture /\ start_time = CaptureMs /\ now = start_time
    /\ old_x = 1 /\ old_y = 1

====
